---- MODULE Spec2Model ----
(***************************************************************************)
(* Model of har_utils.py: segment derivation from two binary frame         *)
(* sequences, basic and context (advanced) segment labels, expansion of    *)
(* labeled segments to frames, event list to frame conversion, and the     *)
(* two-stage event labeler.                                                *)
(*                                                                         *)
(* Python strings are modelled as sequences of one-character strings, so   *)
(* that ''.join(...) and whole-string comparison are computed character by *)
(* character: "TP" is <<"T","P">>, "" is <<>>.                             *)
(***************************************************************************)
EXTENDS Integers, Sequences, FiniteSets, TLC

\* ------------------------------------------------------------------ bounds
MaxFrames == 4     \* longest y_true / y_pred handed to frames2segments
MaxSegs == 4       \* longest basic-label list handed to segment_score
MaxIndex == 3      \* largest index used by events2frames inputs
MaxEvents == 2     \* longest event list handed to events2frames
MaxLast == 5       \* last frame index of the recordings that are event-labeled

\* ----------------------------------------------------------------- strings
TP == <<"T", "P">>
TN == <<"T", "N">>
FP == <<"F", "P">>
FN == <<"F", "N">>
EmptyStr == <<>>
LabC == <<"C">>
LabI == <<"I">>
LabD == <<"D">>
LabM == <<"M">>
LabF == <<"F">>
LabOa == <<"O", "a">>
LabOz == <<"O", "z">>
LabUa == <<"U", "a">>
LabUz == <<"U", "z">>
LabFM == <<"F", "M">>

BasicLabels == {TP, TN, FP, FN}

Min(a, b) == IF a <= b THEN a ELSE b
Max(a, b) == IF a >= b THEN a ELSE b

\* ''.join(parts)
RECURSIVE Join(_)
Join(parts) ==
  IF parts = <<>> THEN <<>> ELSE Head(parts) \o Join(Tail(parts))

\* [x] * n, which is the empty list when n <= 0
Repeat(x, n) == [k \in 1..Max(n, 0) |-> x]

\* the 0-based Python slice s[lo:hi] for 0 <= lo
Slice(s, lo, hi) == SubSeq(s, lo + 1, Min(hi, Len(s)))

\* ---------------------------------------------------- segment_basic_score
SegmentBasicScore(y_true_seg, y_pred_seg) ==
  IF y_true_seg = 1 /\ y_pred_seg = 1 THEN TP
  ELSE IF y_true_seg = 1 /\ y_pred_seg = 0 THEN FN
  ELSE IF y_true_seg = 0 /\ y_pred_seg = 1 THEN FP
  ELSE TN

\* ------------------------------------------------------------ segment_score
\* First segment relabel: the list of entries appended to output (0 or 1).
FirstRelabel_keepC(b) ==
  LET aux == Join(Slice(b, 0, 2)) IN
  IF b[1] \in {TP, LabC} THEN <<LabC>>
  ELSE IF b[1] = TN THEN <<EmptyStr>>
  ELSE IF aux \in {FP \o TN, FP \o FN} THEN <<LabI>>
  ELSE IF aux \in {FN \o TN, FN \o FP} THEN <<LabD>>
  ELSE IF aux = FP \o TP THEN <<LabOa>>
  ELSE IF aux = FN \o TP THEN <<LabUa>>
  ELSE <<>>

FirstRelabel(b) ==
  LET aux == Join(Slice(b, 0, 2)) IN
  IF b[1] = TP THEN <<LabC>>
  ELSE IF b[1] = TN THEN <<EmptyStr>>
  ELSE IF aux \in {FP \o TN, FP \o FN} THEN <<LabI>>
  ELSE IF aux \in {FN \o TN, FN \o FP} THEN <<LabD>>
  ELSE IF aux = FP \o TP THEN <<LabOa>>
  ELSE IF aux = FN \o TP THEN <<LabUa>>
  ELSE <<>>

\* Middle segment relabel for the 0-based index i, 1 <= i <= len - 2.
MiddleRelabel_noUz(b, i) ==
  LET aux == Join(Slice(b, i - 1, i + 2)) IN
  IF b[i + 1] = TP THEN <<LabC>>
  ELSE IF b[i + 1] = TN THEN <<EmptyStr>>
  ELSE IF aux = TP \o FP \o TP THEN <<LabM>>
  ELSE IF aux = TP \o FN \o TP THEN <<LabF>>
  ELSE IF aux \in {TN \o FP \o TN, FN \o FP \o TN, TN \o FP \o FN, FN \o FP \o FN}
    THEN <<LabI>>
  ELSE IF aux \in {TN \o FN \o TN, FP \o FN \o TN, TN \o FN \o FP, FP \o FN \o FP}
    THEN <<LabD>>
  ELSE IF aux \in {TN \o FP \o TP, FN \o FP \o TP} THEN <<LabOa>>
  ELSE IF aux \in {TP \o FP \o TN, TP \o FP \o FN} THEN <<LabOz>>
  ELSE IF aux \in {TN \o FN \o TP, FP \o FN \o TP} THEN <<LabUa>>
  ELSE IF aux \in {TP \o FN \o TN} THEN <<LabUz>>
  ELSE <<>>

MiddleRelabel(b, i) ==
  LET aux == Join(Slice(b, i - 1, i + 2)) IN
  IF b[i + 1] = TP THEN <<LabC>>
  ELSE IF b[i + 1] = TN THEN <<EmptyStr>>
  ELSE IF aux = TP \o FP \o TP THEN <<LabM>>
  ELSE IF aux = TP \o FN \o TP THEN <<LabF>>
  ELSE IF aux \in {TN \o FP \o TN, FN \o FP \o TN, TN \o FP \o FN, FN \o FP \o FN}
    THEN <<LabI>>
  ELSE IF aux \in {TN \o FN \o TN, FP \o FN \o TN, TN \o FN \o FP, FP \o FN \o FP}
    THEN <<LabD>>
  ELSE IF aux \in {TN \o FP \o TP, FN \o FP \o TP} THEN <<LabOa>>
  ELSE IF aux \in {TP \o FP \o TN, TP \o FP \o FN} THEN <<LabOz>>
  ELSE IF aux \in {TN \o FN \o TP, FP \o FN \o TP} THEN <<LabUa>>
  ELSE IF aux \in {TP \o FN \o TN, TP \o FN \o FP} THEN <<LabUz>>
  ELSE <<>>

\* for i in range(lo, len(b) - 1): the entries appended by the middle loop
RECURSIVE MiddleLoop(_, _)
MiddleLoop(b, i) ==
  IF i >= Len(b) - 1 THEN <<>>
  ELSE MiddleRelabel(b, i) \o MiddleLoop(b, i + 1)

\* Last segment relabel, evaluated only when len(b) > 1.
LastRelabel(b) ==
  LET n == Len(b)
      aux == Join(SubSeq(b, Max(n - 1, 1), n))
  IN
  IF n <= 1 THEN <<>>
  ELSE IF b[n] = TP THEN <<LabC>>
  ELSE IF b[n] = TN THEN <<EmptyStr>>
  ELSE IF aux \in {TN \o FP, FN \o FP} THEN <<LabI>>
  ELSE IF aux \in {TN \o FN, FP \o FN} THEN <<LabD>>
  ELSE IF aux = TP \o FP THEN <<LabOa>>
  ELSE IF aux = TP \o FN THEN <<LabUa>>
  ELSE <<>>

\* segment_score(basic_scored_segments): basic_scored_segments[0] raises
\* IndexError on the empty list; otherwise the output list is returned.
SegmentScore(b) ==
  IF b = <<>> THEN [raised |-> TRUE, output |-> <<>>]
  ELSE [raised |-> FALSE,
        output |-> FirstRelabel(b) \o MiddleLoop(b, 1) \o LastRelabel(b)]

\* --------------------------------------------------------- frames2segments
\* np.flatnonzero(np.diff(y)) + 1: the 0-based indices i with y[i] /= y[i-1]
Breaks(y) == {i \in 1..(Len(y) - 1) : y[i + 1] - y[i] # 0}

\* the elements of a finite set of integers in increasing order
RECURSIVE SortedSeq(_)
SortedSeq(S) ==
  IF S = {} THEN <<>>
  ELSE LET m == CHOOSE x \in S : \A y \in S : x <= y
       IN <<m>> \o SortedSeq(S \ {m})

\* np.union1d(y_true_breaks, y_pred_breaks)
SegBreaks_trueOnly(y_true_, y_pred_) == SortedSeq(Breaks(y_true_))

SegBreaks(y_true_, y_pred_) == SortedSeq(Breaks(y_true_) \cup Breaks(y_pred_))

\* [*zip(a, b, c)]: as long as the shortest of the three
Zip3(a, b, c) ==
  [k \in 1..Min(Len(a), Min(Len(b), Len(c))) |-> <<a[k], b[k], c[k]>>]

\* frames2segments(y_true, y_pred, advanced_labels) for len(y_true) = len(y_pred) >= 1
Frames2Segments(y_true_, y_pred_, advanced) ==
  LET seg_breaks == SegBreaks(y_true_, y_pred_)
      seg_starts == <<0>> \o seg_breaks
      seg_ends == seg_breaks \o <<Len(y_true_)>>
      seg_basic_labels ==
        [k \in 1..Len(seg_starts) |->
           SegmentBasicScore(y_true_[seg_starts[k] + 1], y_pred_[seg_starts[k] + 1])]
      seg_labels == IF advanced THEN SegmentScore(seg_basic_labels).output
                    ELSE seg_basic_labels
  IN Zip3(seg_starts, seg_ends, seg_labels)

\* ------------------------------------------ labeled_segments2labeled_frames
RECURSIVE LabeledSegments2LabeledFrames(_)
LabeledSegments2LabeledFrames(segs) ==
  IF segs = <<>> THEN <<>>
  ELSE Repeat(Head(segs)[3], Head(segs)[2] - Head(segs)[1])
         \o LabeledSegments2LabeledFrames(Tail(segs))

\* ------------------------------------------------------------ events2frames
\* the loop over event_list, started with the frames built so far
RECURSIVE EventFrames(_, _)
EventFrames(frames, evs) ==
  IF evs = <<>> THEN frames
  ELSE LET start_e == Head(evs)[1]
           end_e == Head(evs)[2]
           gap == frames \o Repeat(0, start_e - Len(frames))
       IN EventFrames(gap \o Repeat(1, end_e - start_e), Tail(evs))

\* "if last_index:" is false for None and for 0
Truthy(li) == li.given /\ li.value # 0

PadFrames_exact(frames, li) ==
  IF Truthy(li) THEN frames \o Repeat(0, li.value - Len(frames)) ELSE frames

PadFrames(frames, li) ==
  IF Truthy(li) THEN frames \o Repeat(0, li.value - Len(frames) + 1) ELSE frames

\* events2frames(event_list, last_index): no statement of it raises
Events2Frames(evs, li) ==
  [raised |-> FALSE, frames |-> PadFrames(EventFrames(<<>>, evs), li)]

None == [given |-> FALSE, value |-> 0]
Given(n) == [given |-> TRUE, value |-> n]

\* ------------------------------------------------- Event and Segment (models)
\* Event(start, end): an interval with an initially empty label
Event(start, end) == [start |-> start, end |-> end, label |-> EmptyStr]

\* Event.add_label(label): the label is appended to the event's label
AddLabel(ev, label) == [ev EXCEPT !.label = @ \o label]

\* Event.overlap(other): inclusive interval overlap test
Overlap(a, b) == a.start <= b.end /\ b.start <= a.end

\* Segment(start, end, label)
Segment(start, end, label) == [start |-> start, end |-> end, label |-> label]

\* --------------------------------------------- labeled_segments2labeled_events
CreateEventList(evs) == [k \in 1..Len(evs) |-> Event(evs[k][1], evs[k][2])]

CreateSegmentList(segs) ==
  [k \in 1..Len(segs) |-> Segment(segs[k][1], segs[k][2], segs[k][3])]

\* for seg in scored_segments[k..]: if ev.start <= seg.start <= ev.end and
\* seg.label in wanted: ev.add_label(seg.label)
RECURSIVE ScanSegments(_, _, _, _)
ScanSegments(ev, segs, k, wanted) ==
  IF k > Len(segs) THEN ev
  ELSE LET seg == segs[k]
           hit == ev.start <= seg.start /\ seg.start <= ev.end
                    /\ seg.label \in wanted
       IN ScanSegments(IF hit THEN AddLabel(ev, seg.label) ELSE ev, segs, k + 1, wanted)

\* body of the first pass over true events
TrueFirstPass(true_ev, segs) == ScanSegments(true_ev, segs, 1, {LabD, LabF})

\* body of the first pass over predicted events
PredFirstPass_withF(pred_ev, segs) == ScanSegments(pred_ev, segs, 1, {LabI, LabM, LabF})

PredFirstPass(pred_ev, segs) == ScanSegments(pred_ev, segs, 1, {LabI, LabM})

\* does a label contain the character c
Contains(label, c) == \E k \in 1..Len(label) : label[k] = c

\* line 198: pred_ev.label in ["M", "FM"]
PredGivesM_anyM(pred_ev) == Contains(pred_ev.label, "M")

PredGivesM(pred_ev) == pred_ev.label \in {LabM, LabFM}

\* line 205: true_ev.label in ["F", "FM"]
TrueGivesF(true_ev) == true_ev.label \in {LabF, LabFM}

\* body of the second pass over true events: for pred_ev in labeled_pred_ev[k..]
RECURSIVE TrueSecondPass(_, _, _)
TrueSecondPass(true_ev, preds, k) ==
  IF k > Len(preds) THEN true_ev
  ELSE LET pred_ev == preds[k]
           hit == Overlap(pred_ev, true_ev) /\ PredGivesM(pred_ev)
       IN TrueSecondPass(IF hit THEN AddLabel(true_ev, LabM) ELSE true_ev, preds, k + 1)

\* body of the second pass over predicted events: for true_ev in labeled_true_ev[k..]
RECURSIVE PredSecondPass(_, _, _)
PredSecondPass(pred_ev, trues, k) ==
  IF k > Len(trues) THEN pred_ev
  ELSE LET true_ev == trues[k]
           hit == Overlap(true_ev, pred_ev) /\ TrueGivesF(true_ev)
       IN PredSecondPass(IF hit THEN AddLabel(pred_ev, LabF) ELSE pred_ev, trues, k + 1)

\* lines 210-211 and 214-215: if ev.label == "": ev.add_label("C")
Finalize_always(ev) == AddLabel(ev, LabC)

Finalize(ev) == IF ev.label = EmptyStr THEN AddLabel(ev, LabC) ELSE ev

\* ===================================================================== state
VARIABLES
  \* segment_score applied once and then to its own output
  basic_scored_segments, first_out, second_out, ss_pc,
  \* frames2segments followed by labeled_segments2labeled_frames
  y_true, y_pred, advanced_labels, seg_result, frame_labels, f2s_pc,
  \* events2frames
  event_list, last_index, e2f_result, e2f_pc,
  \* labeled_segments2labeled_events
  true_events, pred_events, ev_last, labeled_segments, scored_segments,
  labeled_true_ev, labeled_pred_ev, true_added, pred_added, ev_pc

scoreVars == <<basic_scored_segments, first_out, second_out, ss_pc>>
frameVars == <<y_true, y_pred, advanced_labels, seg_result, frame_labels, f2s_pc>>
e2fVars == <<event_list, last_index, e2f_result, e2f_pc>>
evVars == <<true_events, pred_events, ev_last, labeled_segments, scored_segments,
            labeled_true_ev, labeled_pred_ev, true_added, pred_added, ev_pc>>
vars == <<scoreVars, frameVars, e2fVars, evVars>>

NoResult == [raised |-> FALSE, output |-> <<>>]
NoFrames == [raised |-> FALSE, frames |-> <<>>]

ScoreIdle ==
  /\ basic_scored_segments = <<>>
  /\ first_out = NoResult
  /\ second_out = NoResult
  /\ ss_pc = "idle"

FrameIdle ==
  /\ y_true = <<>>
  /\ y_pred = <<>>
  /\ advanced_labels = FALSE
  /\ seg_result = <<>>
  /\ frame_labels = <<>>
  /\ f2s_pc = "idle"

E2fIdle ==
  /\ event_list = <<>>
  /\ last_index = None
  /\ e2f_result = NoFrames
  /\ e2f_pc = "idle"

EvIdle ==
  /\ true_events = <<>>
  /\ pred_events = <<>>
  /\ ev_last = 0
  /\ labeled_segments = <<>>
  /\ scored_segments = <<>>
  /\ labeled_true_ev = <<>>
  /\ labeled_pred_ev = <<>>
  /\ true_added = <<>>
  /\ pred_added = <<>>
  /\ ev_pc = "idle"

\* all sequences over S of length lo..hi
SeqsOf(S, lo, hi) == UNION {[1..n -> S] : n \in lo..hi}

\* ============================================================ segment_score
InitScore ==
  /\ basic_scored_segments \in SeqsOf(BasicLabels, 1, MaxSegs)
  /\ first_out = NoResult
  /\ second_out = NoResult
  /\ ss_pc = "start"
  /\ FrameIdle /\ E2fIdle /\ EvIdle

\* output = segment_score(basic_scored_segments)
CallSegmentScore ==
  /\ ss_pc = "start"
  /\ first_out' = SegmentScore(basic_scored_segments)
  /\ ss_pc' = "scored"
  /\ UNCHANGED <<basic_scored_segments, second_out, frameVars, e2fVars, evVars>>

\* segment_score(output): the advanced-labeled list is classified again
Reclassify ==
  /\ ss_pc = "scored"
  /\ ~first_out.raised
  /\ second_out' = SegmentScore(first_out.output)
  /\ ss_pc' = "rescored"
  /\ UNCHANGED <<basic_scored_segments, first_out, frameVars, e2fVars, evVars>>

NextScore == CallSegmentScore \/ Reclassify

SpecScore == InitScore /\ [][NextScore]_vars

\* ========================================================== frames2segments
InitFrames ==
  /\ \E n \in 1..MaxFrames :
       /\ y_true \in [1..n -> {0, 1}]
       /\ y_pred \in [1..n -> {0, 1}]
  /\ advanced_labels \in BOOLEAN
  /\ seg_result = <<>>
  /\ frame_labels = <<>>
  /\ f2s_pc = "start"
  /\ ScoreIdle /\ E2fIdle /\ EvIdle

CallFrames2Segments ==
  /\ f2s_pc = "start"
  /\ seg_result' = Frames2Segments(y_true, y_pred, advanced_labels)
  /\ f2s_pc' = "segmented"
  /\ UNCHANGED <<y_true, y_pred, advanced_labels, frame_labels,
                 scoreVars, e2fVars, evVars>>

CallLabeledSegments2LabeledFrames ==
  /\ f2s_pc = "segmented"
  /\ frame_labels' = LabeledSegments2LabeledFrames(seg_result)
  /\ f2s_pc' = "expanded"
  /\ UNCHANGED <<y_true, y_pred, advanced_labels, seg_result,
                 scoreVars, e2fVars, evVars>>

NextFrames == CallFrames2Segments \/ CallLabeledSegments2LabeledFrames

SpecFrames == InitFrames /\ [][NextFrames]_vars

\* ============================================================ events2frames
Intervals == (0..MaxIndex) \X (0..MaxIndex)

InitE2f ==
  /\ event_list \in SeqsOf(Intervals, 0, MaxEvents)
  /\ last_index \in {None} \cup {Given(n) : n \in 0..(MaxIndex + 1)}
  /\ e2f_result = NoFrames
  /\ e2f_pc = "start"
  /\ ScoreIdle /\ FrameIdle /\ EvIdle

CallEvents2Frames ==
  /\ e2f_pc = "start"
  /\ e2f_result' = Events2Frames(event_list, last_index)
  /\ e2f_pc' = "done"
  /\ UNCHANGED <<event_list, last_index, scoreVars, frameVars, evVars>>

NextE2f == CallEvents2Frames

SpecE2f == InitE2f /\ [][NextE2f]_vars

\* ========================================== labeled_segments2labeled_events
\* The event lists of a recording of frames 0..last: frame i belongs to an
\* event iff f[i+1] = 1, and cut[i] separates two events that touch between
\* frames i-1 and i.  Every list of non-empty, increasing, non-overlapping
\* (start, end) intervals with end <= last arises this way.
EventStarts(f, cut) ==
  {i - 1 : i \in {j \in 1..Len(f) : f[j] = 1 /\ (j = 1 \/ f[j - 1] = 0 \/ cut[j - 1])}}

EventEnds(f, cut) ==
  {i \in 1..Len(f) : f[i] = 1 /\ (i = Len(f) \/ f[i + 1] = 0 \/ cut[i])}

EventsOf(f, cut) ==
  LET starts == SortedSeq(EventStarts(f, cut))
      ends == SortedSeq(EventEnds(f, cut))
  IN [k \in 1..Len(starts) |-> <<starts[k], ends[k]>>]

EventLists(last) ==
  {EventsOf(f, cut) : f \in [1..last -> {0, 1}], cut \in [1..(last - 1) -> BOOLEAN]}

\* The segments handed to the labeler are those of the two event lists'
\* frame arrays, both extended to the recording's last index.
InitEvents ==
  /\ ev_last \in 1..MaxLast
  /\ true_events \in EventLists(ev_last)
  /\ pred_events \in EventLists(ev_last)
  /\ labeled_segments =
       Frames2Segments(Events2Frames(true_events, Given(ev_last)).frames,
                       Events2Frames(pred_events, Given(ev_last)).frames, TRUE)
  /\ scored_segments = <<>>
  /\ labeled_true_ev = <<>>
  /\ labeled_pred_ev = <<>>
  /\ true_added = <<>>
  /\ pred_added = <<>>
  /\ ev_pc = "create"
  /\ ScoreIdle /\ FrameIdle /\ E2fIdle

\* number of add_label calls: every label added before finalization is one
\* character long
Added(count, before, after) ==
  [k \in 1..Len(before) |-> count[k] + Len(after[k].label) - Len(before[k].label)]

\* lines 173-176
CreateEvents ==
  /\ ev_pc = "create"
  /\ labeled_true_ev' = CreateEventList(true_events)
  /\ labeled_pred_ev' = CreateEventList(pred_events)
  /\ scored_segments' = CreateSegmentList(labeled_segments)
  /\ true_added' = [k \in 1..Len(true_events) |-> 0]
  /\ pred_added' = [k \in 1..Len(pred_events) |-> 0]
  /\ ev_pc' = "true1"
  /\ UNCHANGED <<true_events, pred_events, ev_last, labeled_segments,
                 scoreVars, frameVars, e2fVars>>

\* lines 179-184
Stage1True ==
  /\ ev_pc = "true1"
  /\ labeled_true_ev' =
       [k \in 1..Len(labeled_true_ev) |-> TrueFirstPass(labeled_true_ev[k], scored_segments)]
  /\ true_added' = Added(true_added, labeled_true_ev, labeled_true_ev')
  /\ ev_pc' = "pred1"
  /\ UNCHANGED <<true_events, pred_events, ev_last, labeled_segments, scored_segments,
                 labeled_pred_ev, pred_added, scoreVars, frameVars, e2fVars>>

\* lines 187-192
Stage1Pred ==
  /\ ev_pc = "pred1"
  /\ labeled_pred_ev' =
       [k \in 1..Len(labeled_pred_ev) |-> PredFirstPass(labeled_pred_ev[k], scored_segments)]
  /\ pred_added' = Added(pred_added, labeled_pred_ev, labeled_pred_ev')
  /\ ev_pc' = "true2"
  /\ UNCHANGED <<true_events, pred_events, ev_last, labeled_segments, scored_segments,
                 labeled_true_ev, true_added, scoreVars, frameVars, e2fVars>>

\* lines 195-199
Stage2True ==
  /\ ev_pc = "true2"
  /\ labeled_true_ev' =
       [k \in 1..Len(labeled_true_ev) |-> TrueSecondPass(labeled_true_ev[k], labeled_pred_ev, 1)]
  /\ true_added' = Added(true_added, labeled_true_ev, labeled_true_ev')
  /\ ev_pc' = "pred2"
  /\ UNCHANGED <<true_events, pred_events, ev_last, labeled_segments, scored_segments,
                 labeled_pred_ev, pred_added, scoreVars, frameVars, e2fVars>>

\* lines 202-206
Stage2Pred ==
  /\ ev_pc = "pred2"
  /\ labeled_pred_ev' =
       [k \in 1..Len(labeled_pred_ev) |-> PredSecondPass(labeled_pred_ev[k], labeled_true_ev, 1)]
  /\ pred_added' = Added(pred_added, labeled_pred_ev, labeled_pred_ev')
  /\ ev_pc' = "finalTrue"
  /\ UNCHANGED <<true_events, pred_events, ev_last, labeled_segments, scored_segments,
                 labeled_true_ev, true_added, scoreVars, frameVars, e2fVars>>

\* lines 209-211
FinalizeTrue ==
  /\ ev_pc = "finalTrue"
  /\ labeled_true_ev' = [k \in 1..Len(labeled_true_ev) |-> Finalize(labeled_true_ev[k])]
  /\ ev_pc' = "finalPred"
  /\ UNCHANGED <<true_events, pred_events, ev_last, labeled_segments, scored_segments,
                 labeled_pred_ev, true_added, pred_added, scoreVars, frameVars, e2fVars>>

\* lines 213-217
FinalizePred ==
  /\ ev_pc = "finalPred"
  /\ labeled_pred_ev' = [k \in 1..Len(labeled_pred_ev) |-> Finalize(labeled_pred_ev[k])]
  /\ ev_pc' = "done"
  /\ UNCHANGED <<true_events, pred_events, ev_last, labeled_segments, scored_segments,
                 labeled_true_ev, true_added, pred_added, scoreVars, frameVars, e2fVars>>

NextEvents ==
  \/ CreateEvents
  \/ Stage1True
  \/ Stage1Pred
  \/ Stage2True
  \/ Stage2Pred
  \/ FinalizeTrue
  \/ FinalizePred

SpecEvents == InitEvents /\ [][NextEvents]_vars

DoneEvents == ev_pc = "done"

\* =================================================================== claims
\* ---- frames2segments (SpecFrames)
IsPartition(segs, n) ==
  /\ Len(segs) >= 1
  /\ segs[1][1] = 0
  /\ segs[Len(segs)][2] = n
  /\ \A k \in 1..Len(segs) : segs[k][1] < segs[k][2]
  /\ \A k \in 1..(Len(segs) - 1) : segs[k + 1][1] = segs[k][2]

\* C1: for non-empty equal-length binary y_true, y_pred and either value of
\* advanced_labels, the list returned by frames2segments partitions
\* [0, len(y_true)): first start 0, last end len(y_true), each start equal to
\* the previous end, every segment non-empty, ordered by start.
C1_SegmentsPartition ==
  f2s_pc \in {"segmented", "expanded"} => IsPartition(seg_result, Len(y_true))

\* the table (1,1)->TP, (1,0)->FN, (0,1)->FP, (0,0)->TN
BasicTable == (<<1, 1>> :> TP) @@ (<<1, 0>> :> FN) @@ (<<0, 1>> :> FP) @@ (<<0, 0>> :> TN)

\* C2: with advanced_labels = False, expanding the segments of frames2segments
\* gives len(y_true) frame labels, the i-th being the basic label of
\* (y_true[i], y_pred[i]).
C2_FramesMatchBasic ==
  (f2s_pc = "expanded" /\ ~advanced_labels) =>
    /\ Len(frame_labels) = Len(y_true)
    /\ \A i \in 1..Len(y_true) : frame_labels[i] = BasicTable[<<y_true[i], y_pred[i]>>]

C2_Witness ==
  /\ f2s_pc = "expanded"
  /\ ~advanced_labels
  /\ Len(seg_result) >= 2
  /\ Len(seg_result) < Len(y_true)
  /\ Breaks(y_pred) \ Breaks(y_true) # {}

\* ---- segment_score (SpecScore)
NoAdjacentEqual(b) == \A k \in 1..(Len(b) - 1) : b[k] # b[k + 1]

AdvancedLabels ==
  {LabC, EmptyStr, LabI, LabD, LabM, LabF, LabOa, LabOz, LabUa, LabUz}

\* C3: on a basic-label sequence with no two adjacent labels equal,
\* segment_score returns one advanced label per position (TP gives C, TN gives
\* "", FP and FN give one of the error labels); the only exception is the
\* one-segment sequence FP or FN, for which nothing is returned.
C3_OneLabelPerSegment ==
  (ss_pc # "start" /\ NoAdjacentEqual(basic_scored_segments)) =>
    LET b == basic_scored_segments
        out == first_out.output
    IN /\ ~first_out.raised
       /\ IF Len(b) = 1 /\ b[1] \in {FP, FN}
            THEN out = <<>>
            ELSE /\ Len(out) = Len(b)
                 /\ \A k \in 1..Len(b) :
                      /\ out[k] \in AdvancedLabels
                      /\ (b[k] = TP) <=> (out[k] = LabC)
                      /\ (b[k] = TN) <=> (out[k] = EmptyStr)

C3_Witness ==
  /\ ss_pc = "scored"
  /\ NoAdjacentEqual(basic_scored_segments)
  /\ Len(basic_scored_segments) >= 4
  /\ basic_scored_segments[1] \in {FP, FN}
  /\ basic_scored_segments[2] \in {FP, FN}
  /\ basic_scored_segments[4] \in {FP, FN}
  /\ Len(first_out.output) = Len(basic_scored_segments)

\* C8 as stated: segment_score(segment_score(x)) = segment_score(x) for every
\* basic-label sequence x.
C8_Idempotent ==
  ss_pc = "rescored" => second_out = first_out

\* C8 amended: for every non-empty basic-label sequence x, segment_score
\* applied to segment_score(x) never gives segment_score(x) back: it returns
\* the empty list when segment_score(x) is non-empty and raises IndexError when
\* segment_score(x) is empty.
C8_ReclassifyGivesNothing ==
  ss_pc = "rescored" =>
    /\ first_out.output # <<>> => (~second_out.raised /\ second_out.output = <<>>)
    /\ first_out.output = <<>> => second_out.raised

C8_Witness ==
  /\ ss_pc = "rescored"
  /\ Len(first_out.output) >= 3
  /\ ~second_out.raised

\* ---- events2frames (SpecE2f)
ValidEvents(evs) ==
  /\ \A k \in 1..Len(evs) : evs[k][1] < evs[k][2]
  /\ \A k \in 1..(Len(evs) - 1) : evs[k][2] <= evs[k + 1][1]

LastEnd(evs) == IF evs = <<>> THEN 0 ELSE evs[Len(evs)][2]

\* is the 0-based frame i inside some interval
InEvent(evs, i) == \E k \in 1..Len(evs) : evs[k][1] <= i /\ i < evs[k][2]

MarksEvents(frames, evs) ==
  \A i \in 1..Len(frames) : frames[i] = IF InEvent(evs, i - 1) THEN 1 ELSE 0

\* C6 as stated: for non-overlapping increasing intervals, frame i is 1 exactly
\* when it lies in an interval; without padding the length is the last end,
\* and with a final length L >= last end the length is exactly L.
C6_PaddedToLength ==
  (e2f_pc = "done" /\ ValidEvents(event_list)) =>
    /\ MarksEvents(e2f_result.frames, event_list)
    /\ ~last_index.given => Len(e2f_result.frames) = LastEnd(event_list)
    /\ (last_index.given /\ last_index.value >= LastEnd(event_list)) =>
         Len(e2f_result.frames) = last_index.value

\* C6 amended: for non-overlapping increasing intervals, frame i is 1 exactly
\* when it lies in an interval; without last_index, or with last_index 0, the
\* length is the last end (0 for no intervals); with a non-zero last_index
\* L >= last end the array is zero-padded up to index L, so its length is L + 1.
C6_PaddedToLastIndex ==
  (e2f_pc = "done" /\ ValidEvents(event_list)) =>
    /\ MarksEvents(e2f_result.frames, event_list)
    /\ (~last_index.given \/ last_index.value = 0) =>
         Len(e2f_result.frames) = LastEnd(event_list)
    /\ (last_index.given /\ last_index.value # 0
          /\ last_index.value >= LastEnd(event_list)) =>
         Len(e2f_result.frames) = last_index.value + 1

C6_Witness ==
  /\ e2f_pc = "done"
  /\ ValidEvents(event_list)
  /\ Len(event_list) = 2
  /\ event_list[1][2] < event_list[2][1]
  /\ last_index.given
  /\ last_index.value > LastEnd(event_list)
  /\ Len(e2f_result.frames) = last_index.value + 1

\* an interval starts before the previous interval's end
OverlappingEvents(evs) == \E k \in 1..(Len(evs) - 1) : evs[k + 1][1] < evs[k][2]

\* C7: events2frames fails with an InvalidInput error, returning no frame
\* array, whenever the intervals overlap or are not strictly increasing.
C7_RejectsOverlap ==
  (e2f_pc = "done" /\ OverlappingEvents(event_list)) =>
    (e2f_result.raised /\ e2f_result.frames = <<>>)

\* ---- labeled_segments2labeled_events (SpecEvents)
\* the segments whose start lies in the inclusive span of ev, with a label in wanted
SegmentsIn(ev, wanted) ==
  {k \in 1..Len(scored_segments) :
     /\ ev.start <= scored_segments[k].start
     /\ scored_segments[k].start <= ev.end
     /\ scored_segments[k].label \in wanted}

\* the predicted events overlapping true event t whose label is in labels
PredsOver(t, labels) ==
  {p \in 1..Len(labeled_pred_ev) :
     /\ Overlap(labeled_pred_ev[p], labeled_true_ev[t])
     /\ labeled_pred_ev[p].label \in labels}

\* the true events overlapping predicted event p whose label is in labels
TruesOver(p, labels) ==
  {t \in 1..Len(labeled_true_ev) :
     /\ Overlap(labeled_true_ev[t], labeled_pred_ev[p])
     /\ labeled_true_ev[t].label \in labels}

\* C4: stage 2 starts only when stage 1 is complete for both event lists; its
\* first pass appends to each true event one "M" per overlapping predicted
\* event whose label is then exactly "M" or "FM" and leaves predicted events
\* alone; its second pass, taken after the whole first pass, appends to each
\* predicted event one "F" per overlapping true event whose label (with the
\* "M"s of the first pass) is then exactly "F" or "FM" and leaves true events
\* alone.
C4_Stage2Passes ==
  [][/\ ev_pc' = "true2" =>
          /\ ev_pc = "pred1"
          /\ \A t \in 1..Len(labeled_true_ev') :
               true_added'[t] = Cardinality(SegmentsIn(labeled_true_ev'[t], {LabD, LabF}))
          /\ \A p \in 1..Len(labeled_pred_ev') :
               pred_added'[p] = Cardinality(SegmentsIn(labeled_pred_ev'[p], {LabI, LabM}))
     /\ ev_pc = "true2" =>
          /\ ev_pc' = "pred2"
          /\ labeled_pred_ev' = labeled_pred_ev
          /\ \A t \in 1..Len(labeled_true_ev) :
               labeled_true_ev'[t].label =
                 labeled_true_ev[t].label
                   \o Repeat("M", Cardinality(PredsOver(t, {LabM, LabFM})))
     /\ ev_pc = "pred2" =>
          /\ ev_pc' = "finalTrue"
          /\ labeled_true_ev' = labeled_true_ev
          /\ \A p \in 1..Len(labeled_pred_ev) :
               labeled_pred_ev'[p].label =
                 labeled_pred_ev[p].label
                   \o Repeat("F", Cardinality(TruesOver(p, {LabF, LabFM})))
    ]_vars

\* a predicted event has its "F" from a true event labeled "FM", whose "M" was
\* appended by the first pass of stage 2
C4_Witness ==
  /\ ev_pc = "finalTrue"
  /\ \E p \in 1..Len(labeled_pred_ev) :
       /\ labeled_pred_ev[p].label = LabF
       /\ TruesOver(p, {LabFM}) # {}
       /\ TruesOver(p, {LabF}) = {}
  /\ \E t \in 1..Len(labeled_true_ev) : Cardinality(PredsOver(t, {LabM \o LabF})) >= 1

\* C5: every returned event has a non-empty label; the label is exactly "C"
\* iff nothing was appended to the event in stages 1 and 2, and a label that
\* had something appended contains no "C".
EventFinal(ev, added) ==
  /\ ev.label # EmptyStr
  /\ (ev.label = LabC) <=> (added = 0)
  /\ added > 0 => ~Contains(ev.label, "C")

C5_CorrectIffNothingAppended ==
  DoneEvents =>
    /\ \A t \in 1..Len(labeled_true_ev) : EventFinal(labeled_true_ev[t], true_added[t])
    /\ \A p \in 1..Len(labeled_pred_ev) : EventFinal(labeled_pred_ev[p], pred_added[p])

C5_Witness ==
  /\ DoneEvents
  /\ \E t \in 1..Len(labeled_true_ev) : true_added[t] >= 2
  /\ \E p \in 1..Len(labeled_pred_ev) :
       pred_added[p] = 0 /\ labeled_pred_ev[p].label = LabC

\* every character after an "F" is an "F"
FOnlyAtEnd(label) ==
  \A k \in 1..(Len(label) - 1) : label[k] = "F" => label[k + 1] = "F"

PredLabelShape ==
  \A p \in 1..Len(labeled_pred_ev) :
    LET label == labeled_pred_ev[p].label IN
    /\ label # LabFM
    /\ FOnlyAtEnd(label)
    /\ ev_pc \in {"true1", "pred1", "true2", "pred2"} =>
         \A k \in 1..Len(label) : label[k] \in {"I", "M"}

\* C9: no predicted event ever carries the label "FM": up to the end of the
\* true-event second pass predicted labels consist of "I" and "M" only, "F" is
\* appended afterwards and only at the end; so in stage 2 a true event gets
\* one "M" per overlapping predicted event labeled exactly "M", and no other.
C9_NoPredictedFM ==
  /\ []PredLabelShape
  /\ [][ev_pc = "true2" =>
          \A t \in 1..Len(labeled_true_ev) :
            Len(labeled_true_ev'[t].label) - Len(labeled_true_ev[t].label)
              = Cardinality(PredsOver(t, {LabM}))]_vars

C9_Witness ==
  /\ ev_pc = "finalTrue"
  /\ \E t \in 1..Len(labeled_true_ev) :
       /\ labeled_true_ev[t].label = LabFM
       /\ \E p \in 1..Len(labeled_pred_ev) :
            /\ Overlap(labeled_pred_ev[p], labeled_true_ev[t])
            /\ labeled_pred_ev[p].label = LabM \o LabF

\* C10: with the segments of frames2segments (advanced labels) for the frame
\* arrays of the two event lists, every predicted event overlapping a true
\* event that covers a segment labeled "F" ends with a label containing "F".
C10_FragmentsGetF ==
  DoneEvents =>
    \A t \in 1..Len(labeled_true_ev) : \A p \in 1..Len(labeled_pred_ev) :
      (/\ Overlap(labeled_pred_ev[p], labeled_true_ev[t])
       /\ SegmentsIn(labeled_true_ev[t], {LabF}) # {})
        => Contains(labeled_pred_ev[p].label, "F")

====
